---- MODULE Spec2Model ----
(***************************************************************************)
(* A model of enum_dispatch: the definition cache (src/src/cache.rs), the  *)
(* reduced enum form (src/src/enum_dispatch_item.rs) and the expansion     *)
(* engine (src/src/expansion.rs).                                          *)
(*                                                                         *)
(*   Spec     the attribute invocations of one compilation pass, each a    *)
(*            sequence of cache operations, interleaved at the granularity *)
(*            of the cache's mutexes.                                      *)
(*   SpecApi  the cache's public functions called in any order by one      *)
(*            caller.                                                      *)
(*   SpecExp  the expansion engine applied to bounded trait/enum inputs.   *)
(***************************************************************************)
EXTENDS Integers, Sequences, FiniteSets, TLC

VARIABLES
    TRAIT_DEFS,      \* cache.rs:24  HashMap<String, String>
    ENUM_DEFS,       \* cache.rs:25  HashMap<String, String>
    DEFERRED_LINKS,  \* cache.rs:26  HashMap<String, Vec<String>>
    pc,              \* position of each attribute invocation
    idents,          \* local `idents` of a running fulfilled_by_* call (still to look up)
    fulfilled,       \* definitions collected so far by a running fulfilled_by_* call
    expanded,        \* per invocation: the expansions it appended to its output
    started,         \* history: the invocations in the order they began
    overlapped,      \* history: some invocation began while another was in progress
    doneAtStore,     \* history: per trait invocation, the enum invocations finished when it stored
    lastCall,        \* SpecApi: the last public call, its arguments and its return value
    pending,         \* SpecApi ghost: pending[a][b] = register_link calls pairing a with b
                     \*   since the entry keyed by a was last consumed
    matched,         \* SpecApi ghost: the pairs <<trait, enum>> for which a
                     \*   take_traits_linked_to(enum) has returned the trait
    input,           \* SpecExp: the (enum, trait) pair handed to the expansion engine
    output,          \* SpecExp: what add_enum_impls produced for it
    converted        \* SpecExp: what the conversion of the enum to syn::ItemEnum produced

vars == << TRAIT_DEFS, ENUM_DEFS, DEFERRED_LINKS, pc, idents, fulfilled, expanded,
           started, overlapped, doneAtStore,
           lastCall, pending, matched, input, output, converted >>

cacheVars == << TRAIT_DEFS, ENUM_DEFS, DEFERRED_LINKS >>
invVars == << pc, idents, fulfilled, expanded, started, overlapped, doneAtStore >>
apiVars == << lastCall, pending, matched >>
expVars == << input, output, converted >>

---------------------------------------------------------------------------
(* Bounds of the model. *)

\* longest Vec a DEFERRED_LINKS entry may grow to
MaxLinks == 2
\* most variant types of an enum handed to the expansion engine
MaxVariants == 2
\* most non-receiver parameters of a trait method
MaxArgs == 2
\* most items of a trait
MaxMethods == 2

---------------------------------------------------------------------------
(* Syntax trees.  A token carries a span; text carries none. *)

\* the span of tokens that came from the user's source
LiveSpan == "source"
\* the span of tokens re-parsed from a cached string
CallSite == "call_site"

Range(s) == { s[i] : i \in DOMAIN s }

RECURSIVE SeqsUpTo(_, _)
SeqsUpTo(S, n) ==
    IF n = 0 THEN { << >> }
    ELSE LET shorter == SeqsUpTo(S, n - 1)
         IN  shorter \cup { Append(s, x) : s \in { t \in shorter : Len(t) = n - 1 }, x \in S }

\* Results of code that may panic (unimplemented!, panic!, unwrap).
Ok(v) == [ok |-> TRUE, err |-> "", val |-> v]
Panic(msg) == [ok |-> FALSE, err |-> msg, val |-> << >>]

\* syn::Type, as far as ident_for distinguishes it
TypePath(segments) == [tag |-> "Path", segments |-> segments, span |-> LiveSpan]
TypeTuple == [tag |-> "Tuple", segments |-> << >>, span |-> LiveSpan]

\* syn::FnArg
SelfRef == [tag |-> "SelfRef", pat |-> "", ident |-> "self"]
SelfValue == [tag |-> "SelfValue", pat |-> "", ident |-> "self"]
Captured(name) == [tag |-> "Captured", pat |-> "Ident", ident |-> name]
CapturedWild == [tag |-> "Captured", pat |-> "Wild", ident |-> "_"]

\* syn::GenericParam: a type parameter with its bounds, as in <T: Bar>
TypeParam(name, bounds) == [ident |-> name, bounds |-> bounds]

\* syn::TraitItem
TraitMethod(name, inputs) == [tag |-> "Method", ident |-> name, inputs |-> inputs, span |-> LiveSpan]
TraitConst(name) == [tag |-> "Const", ident |-> name, inputs |-> << >>, span |-> LiveSpan]

\* syn::ItemTrait
ItemTrait(name, unsafety, generics, items) ==
    [ident |-> name, unsafety |-> unsafety, generics |-> generics, items |-> items]

\* EnumDispatchItem
EnumDispatchItem(name, generics, variants) ==
    [ident |-> name, generics |-> generics, variants |-> variants]

Respan(seq, sp) == [i \in DOMAIN seq |-> [seq[i] EXCEPT !.span = sp]]

\* item.into_token_stream().to_string(): the text of the item; spans are lost
TraitToString(item) == [text |-> [item EXCEPT !.items = Respan(item.items, "")]]
\* EnumToString with the variant list left out of the text
EnumToString_DropsVariants(item) == [text |-> [item EXCEPT !.variants = << >>]]

EnumToString(item) == [text |-> [item EXCEPT !.variants = Respan(item.variants, "")]]

\* syn::parse(entry.parse().unwrap()).unwrap(): every token gets the call-site span
ParseTrait(entry) == [entry.text EXCEPT !.items = Respan(entry.text.items, CallSite)]
ParseEnum(entry) == [entry.text EXCEPT !.variants = Respan(entry.text.variants, CallSite)]

---------------------------------------------------------------------------
(* The reduced enum form: src/src/enum_dispatch_item.rs *)

\* ident_for naming the variant of a type that is not a path after a fixed word
ident_for_Fallback(ty) ==
    IF ty.tag = "Path"
    THEN Ok(ty.segments[Len(ty.segments)])
    ELSE Ok("Unknown")

\* ident_for taking the first segment of the path instead of the last
ident_for_FirstSegment(ty) ==
    IF ty.tag = "Path"
    THEN Ok(ty.segments[1])
    ELSE Panic("A variant for the specified type cannot be created.")

ident_for(ty) ==
    IF ty.tag = "Path"
    THEN Ok(ty.segments[Len(ty.segments)])
    ELSE Panic("A variant for the specified type cannot be created.")

\* impl From<EnumDispatchItem> for syn::ItemEnum
ItemEnumFrom(item) ==
    LET tags == [i \in DOMAIN item.variants |-> ident_for(item.variants[i])]
        bad == { i \in DOMAIN tags : ~tags[i].ok }
    IN  IF bad # {}
        THEN Panic(tags[CHOOSE i \in bad : \A j \in bad : i <= j].err)
        ELSE Ok([ident |-> item.ident,
                 generics |-> item.generics,
                 variants |-> [i \in DOMAIN item.variants |->
                                 [ident |-> tags[i].val,
                                  fields |-> << item.variants[i] >>]]])

\* The variants as the expansion engine reads them (variant.ident, variant.ty):
\* the tag and the single unnamed field of each variant of the standard enum.
EnumDispatchVariants(enum_def) ==
    LET std == ItemEnumFrom(enum_def)
    IN  IF ~std.ok THEN std
        ELSE Ok([i \in DOMAIN std.val.variants |->
                   [ident |-> std.val.variants[i].ident,
                    ty |-> std.val.variants[i].fields[1]]])

---------------------------------------------------------------------------
(* The expansion engine: src/src/expansion.rs *)

FIELDNAME == "inner"

RECURSIVE extract_from(_, _, _)
extract_from(trait_args, method_type, new_args) ==
    IF trait_args = << >> THEN Ok([method_type |-> method_type, args |-> new_args])
    ELSE LET arg == Head(trait_args)
             rest == Tail(trait_args)
         IN  CASE arg.tag = "SelfRef" -> extract_from(rest, "ByReference", new_args)
               [] arg.tag = "SelfValue" -> extract_from(rest, "ByValue", new_args)
               [] arg.tag = "Captured" /\ arg.pat = "Ident" ->
                      extract_from(rest, method_type, Append(new_args, arg.ident))
               [] OTHER -> Panic("Unsupported argument type")

extract_fn_args(trait_args) == extract_from(trait_args, "Static", << >>)

\* create_trait_fn_call without the check for a missing receiver
create_trait_fn_call_AllowsStatic(trait_method) ==
    LET ex == extract_fn_args(trait_method.inputs)
    IN  IF ~ex.ok THEN ex
        ELSE Ok([func |-> [base |-> FIELDNAME, member |-> trait_method.ident],
                 args |-> ex.val.args])

\* create_trait_fn_call passing every declared input, the receiver included
create_trait_fn_call_PassesSelf(trait_method) ==
    LET ex == extract_fn_args(trait_method.inputs)
    IN  IF ~ex.ok THEN ex
        ELSE IF ex.val.method_type = "Static"
        THEN Panic("Static methods cannot be enum_dispatched (no self argument to match on)")
        ELSE Ok([func |-> [base |-> FIELDNAME, member |-> trait_method.ident],
                 args |-> [k \in DOMAIN trait_method.inputs |-> trait_method.inputs[k].ident]])

create_trait_fn_call(trait_method) ==
    LET ex == extract_fn_args(trait_method.inputs)
    IN  IF ~ex.ok THEN ex
        ELSE IF ex.val.method_type = "Static"
        THEN Panic("Static methods cannot be enum_dispatched (no self argument to match on)")
        ELSE Ok([func |-> [base |-> FIELDNAME, member |-> trait_method.ident],
                 args |-> ex.val.args])

create_match_expr(trait_method, enum_name, enumvariants) ==
    LET trait_fn_call == create_trait_fn_call(trait_method)
    IN  IF ~trait_fn_call.ok THEN trait_fn_call
        ELSE Ok([tag |-> "Match",
                 expr |-> "self",
                 arms |-> [i \in DOMAIN enumvariants |->
                             [pat |-> [enum |-> enum_name,
                                       variant |-> enumvariants[i].ident,
                                       binding |-> FIELDNAME],
                              body |-> trait_fn_call.val]]])

create_trait_match(trait_item, enum_name, enumvariants) ==
    IF trait_item.tag = "Method"
    THEN LET match_expr == create_match_expr(trait_item, enum_name, enumvariants)
         IN  IF ~match_expr.ok THEN match_expr
             ELSE Ok([attrs |-> << "inline" >>,
                      sig |-> [ident |-> trait_item.ident,
                               inputs |-> trait_item.inputs],
                      block |-> << match_expr.val >>])
    ELSE Panic("Unsupported trait item")

\* the text of a type, without the span of its tokens
TypeSyntax(ty) == [tag |-> ty.tag, segments |-> ty.segments]

generate_from_impls(enumname, enumvariants) ==
    [i \in DOMAIN enumvariants |->
        [unsafety |-> FALSE,
         generics |-> << >>,
         trait_ |-> [ident |-> "::std::convert::From",
                     args |-> << TypeSyntax(enumvariants[i].ty) >>],
         self_ty |-> [ident |-> enumname, args |-> << >>],
         items |-> << [attrs |-> << >>,
                       sig |-> [ident |-> "from",
                                inputs |-> << Captured("v") >>,
                                types |-> << TypeSyntax(enumvariants[i].ty) >>,
                                output |-> enumname],
                       block |-> << [tag |-> "Call",
                                     func |-> [enum |-> enumname,
                                               variant |-> enumvariants[i].ident],
                                     args |-> << "v" >>] >>] >>,
         spans |-> { enumvariants[i].ty.span }]]

\* add_enum_impls emitting the implementation of the trait before the conversions
add_enum_impls_TraitFirst(enum_def, traitdef) ==
    LET variants == EnumDispatchVariants(enum_def)
        fns == [i \in DOMAIN traitdef.items |->
                  IF variants.ok
                  THEN create_trait_match(traitdef.items[i], enum_def.ident, variants.val)
                  ELSE variants]
        bad == { i \in DOMAIN fns : ~fns[i].ok }
        trait_impl == [unsafety |-> traitdef.unsafety,
                       generics |-> traitdef.generics,
                       trait_ |-> [ident |-> traitdef.ident, args |-> << >>],
                       self_ty |-> [ident |-> enum_def.ident, args |-> << >>],
                       items |-> [i \in DOMAIN fns |-> fns[i].val],
                       spans |-> { traitdef.items[i].span : i \in DOMAIN traitdef.items }
                                 \cup { enum_def.variants[i].span : i \in DOMAIN enum_def.variants }]
    IN  IF ~variants.ok THEN variants
        ELSE IF bad # {} THEN Panic(fns[CHOOSE i \in bad : \A j \in bad : i <= j].err)
        ELSE Ok(<< trait_impl >> \o generate_from_impls(enum_def.ident, variants.val))

add_enum_impls(enum_def, traitdef) ==
    LET variants == EnumDispatchVariants(enum_def)
        fns == [i \in DOMAIN traitdef.items |->
                  IF variants.ok
                  THEN create_trait_match(traitdef.items[i], enum_def.ident, variants.val)
                  ELSE variants]
        bad == { i \in DOMAIN fns : ~fns[i].ok }
        trait_impl == [unsafety |-> traitdef.unsafety,
                       generics |-> traitdef.generics,
                       trait_ |-> [ident |-> traitdef.ident, args |-> << >>],
                       self_ty |-> [ident |-> enum_def.ident, args |-> << >>],
                       items |-> [i \in DOMAIN fns |-> fns[i].val],
                       spans |-> { traitdef.items[i].span : i \in DOMAIN traitdef.items }
                                 \cup { enum_def.variants[i].span : i \in DOMAIN enum_def.variants }]
    IN  IF ~variants.ok THEN variants
        ELSE IF bad # {} THEN Panic(fns[CHOOSE i \in bad : \A j \in bad : i <= j].err)
        ELSE Ok(generate_from_impls(enum_def.ident, variants.val) \o << trait_impl >>)

---------------------------------------------------------------------------
(* The definition cache: src/src/cache.rs *)

EmptyMap == [k \in {} |-> << >>]

\* HashMap::insert(key, value): inserts or overwrites
MapInsert(map, key, value) ==
    [k \in DOMAIN map \cup {key} |-> IF k = key THEN value ELSE map[k]]

\* cache_trait keeping the entry already stored under the identifier
cache_trait_KeepsFirst(defs, item) ==
    IF item.ident \in DOMAIN defs THEN defs
    ELSE MapInsert(defs, item.ident, TraitToString(item))

cache_trait(defs, item) == MapInsert(defs, item.ident, TraitToString(item))

cache_enum_dispatch(defs, item) == MapInsert(defs, item.ident, EnumToString(item))

\* PushLink replacing the Vec under key instead of pushing onto it
PushLink_Overwrites(links, key, value) == MapInsert(links, key, << value >>)

\* one half of defer_link: push onto the Vec under key, or insert a new Vec
PushLink(links, key, value) ==
    IF key \in DOMAIN links
    THEN [links EXCEPT ![key] = Append(@, value)]
    ELSE MapInsert(links, key, << value >>)

\* defer_link recording the link under the cached item's name only
defer_link_OneWay(links, needed, cached) == PushLink(links, cached, needed)

defer_link(links, needed, cached) ==
    PushLink(PushLink(links, needed, cached), cached, needed)

\* remove_entry emptying the whole link table instead of one entry
remove_entry_ClearsAll(links, defname) == EmptyMap

\* HashMap::remove_entry(defname): what is left of the map
remove_entry(links, defname) == [k \in DOMAIN links \ {defname} |-> links[k]]

\* HashMap::remove_entry(defname): the Vec it hands back, vec![] when there is none
TakenLinks(links, defname) ==
    IF defname \in DOMAIN links THEN links[defname] ELSE << >>

\* the filter_map closure of fulfilled_by_enum, for one identifier
lookup_trait(defs, ident_string) ==
    IF ident_string \in DOMAIN defs THEN << ParseTrait(defs[ident_string]) >> ELSE << >>

\* the filter_map closure of fulfilled_by_trait, for one identifier
lookup_enum(defs, ident_string) ==
    IF ident_string \in DOMAIN defs THEN << ParseEnum(defs[ident_string]) >> ELSE << >>

RECURSIVE CollectTraits(_, _)
CollectTraits(defs, names) ==
    IF names = << >> THEN << >>
    ELSE lookup_trait(defs, Head(names)) \o CollectTraits(defs, Tail(names))

RECURSIVE CollectEnums(_, _)
CollectEnums(defs, names) ==
    IF names = << >> THEN << >>
    ELSE lookup_enum(defs, Head(names)) \o CollectEnums(defs, Tail(names))

\* fulfilled_by_enum run without interruption: the Vec returned
fulfilled_by_enum(links, defs, defname) == CollectTraits(defs, TakenLinks(links, defname))

\* fulfilled_by_trait run without interruption: the Vec returned
fulfilled_by_trait(links, defs, defname) == CollectEnums(defs, TakenLinks(links, defname))

---------------------------------------------------------------------------
(* The items of the compilation pass modelled by Spec and SpecApi. *)

TraitT ==
    ItemTrait("T", FALSE, << >>,
              << TraitMethod("area", << SelfRef >>),
                 TraitMethod("scale", << SelfValue, Captured("x") >>) >>)

\* another trait of the same name (the item edited, or declared in another module)
TraitT2 == ItemTrait("T", TRUE, << >>, << TraitMethod("area", << SelfRef >>) >>)

EnumE ==
    EnumDispatchItem("E", << >>,
                     << TypePath(<< "Circle" >>), TypePath(<< "shapes", "Square" >>) >>)

EnumF == EnumDispatchItem("F", << >>, << TypePath(<< "Circle" >>) >>)

TraitNames == { "T" }
EnumNames == { "E", "F" }
Names == TraitNames \cup EnumNames

---------------------------------------------------------------------------
(* Spec: the attribute invocations of one compilation pass.                *)
(*                                                                         *)
(* An invocation on a trait stores it and takes the enums linked to it; an *)
(* invocation on an enum stores it, links it to the trait its attribute    *)
(* names and takes the traits linked to it.  Whatever a take returns is    *)
(* expanded.  Every cache function locks one table at a time, so a step is *)
(* one locked access.                                                      *)

TraitInvocations == { "tA", "tB" }
EnumInvocations == { "eA", "eB" }
Invocations == TraitInvocations \cup EnumInvocations

\* the annotated item of each invocation; tB is the trait T processed again
InvItem(i) ==
    CASE i = "tA" -> TraitT
      [] i = "tB" -> TraitT
      [] i = "eA" -> EnumE
      [] i = "eB" -> EnumF

\* the trait named by the attribute of an enum invocation
InvAttr(i) == "T"

InProgress(i) == pc[i] \notin { "store", "done" }

NoCall ==
    [op |-> "none", a |-> "", b |-> "", item |-> << >>,
     taken |-> << >>, ret |-> << >>, again |-> FALSE]
NoPending == [a \in Names |-> [b \in Names |-> 0]]
NoInput == [enum |-> << >>, trait |-> << >>]
NoOutput == [ran |-> FALSE, res |-> << >>]

InitCache ==
    /\ TRAIT_DEFS = EmptyMap
    /\ ENUM_DEFS = EmptyMap
    /\ DEFERRED_LINKS = EmptyMap

InitInvocations ==
    /\ pc = [i \in Invocations |-> "store"]
    /\ idents = [i \in Invocations |-> << >>]
    /\ fulfilled = [i \in Invocations |-> << >>]
    /\ expanded = [i \in Invocations |-> << >>]
    /\ started = << >>
    /\ overlapped = FALSE
    /\ doneAtStore = [i \in TraitInvocations |-> {}]

InitApi ==
    /\ lastCall = NoCall
    /\ pending = NoPending
    /\ matched = {}

InitExp ==
    /\ input = NoInput
    /\ output = NoOutput
    /\ converted = NoOutput

Init == InitCache /\ InitInvocations /\ InitApi /\ InitExp

Begin(i) ==
    /\ pc[i] = "store"
    /\ (i = "tB" => pc["tA"] = "done")
    /\ started' = Append(started, i)
    /\ overlapped' = (overlapped \/ \E j \in Invocations \ {i} : InProgress(j))

StoreTrait(i) ==
    /\ i \in TraitInvocations
    /\ Begin(i)
    /\ TRAIT_DEFS' = cache_trait(TRAIT_DEFS, InvItem(i))
    /\ pc' = [pc EXCEPT ![i] = "take"]
    /\ doneAtStore' = [doneAtStore EXCEPT ![i] = { e \in EnumInvocations : pc[e] = "done" }]
    /\ UNCHANGED << ENUM_DEFS, DEFERRED_LINKS, idents, fulfilled, expanded >>
    /\ UNCHANGED << apiVars, expVars >>

StoreEnum(i) ==
    /\ i \in EnumInvocations
    /\ Begin(i)
    /\ ENUM_DEFS' = cache_enum_dispatch(ENUM_DEFS, InvItem(i))
    /\ pc' = [pc EXCEPT ![i] = "link"]
    /\ UNCHANGED << TRAIT_DEFS, DEFERRED_LINKS, idents, fulfilled, expanded, doneAtStore >>
    /\ UNCHANGED << apiVars, expVars >>

CanPush(links, key) == Len(TakenLinks(links, key)) < MaxLinks

Link(i) ==
    /\ i \in EnumInvocations
    /\ pc[i] = "link"
    /\ CanPush(DEFERRED_LINKS, InvAttr(i))
    /\ CanPush(DEFERRED_LINKS, InvItem(i).ident)
    /\ DEFERRED_LINKS' = defer_link(DEFERRED_LINKS, InvAttr(i), InvItem(i).ident)
    /\ pc' = [pc EXCEPT ![i] = "take"]
    /\ UNCHANGED << TRAIT_DEFS, ENUM_DEFS, idents, fulfilled, expanded,
                    started, overlapped, doneAtStore >>
    /\ UNCHANGED << apiVars, expVars >>

\* the first statement of fulfilled_by_enum / fulfilled_by_trait
Take(i) ==
    /\ pc[i] = "take"
    /\ idents' = [idents EXCEPT ![i] = TakenLinks(DEFERRED_LINKS, InvItem(i).ident)]
    /\ DEFERRED_LINKS' = remove_entry(DEFERRED_LINKS, InvItem(i).ident)
    /\ pc' = [pc EXCEPT ![i] = "lookup"]
    /\ UNCHANGED << TRAIT_DEFS, ENUM_DEFS, fulfilled, expanded,
                    started, overlapped, doneAtStore >>
    /\ UNCHANGED << apiVars, expVars >>

\* one iteration of the filter_map of fulfilled_by_enum
LookupTrait(i) ==
    /\ i \in EnumInvocations
    /\ pc[i] = "lookup"
    /\ idents[i] # << >>
    /\ fulfilled' = [fulfilled EXCEPT ![i] = @ \o lookup_trait(TRAIT_DEFS, Head(idents[i]))]
    /\ idents' = [idents EXCEPT ![i] = Tail(@)]
    /\ UNCHANGED << cacheVars, pc, expanded, started, overlapped, doneAtStore >>
    /\ UNCHANGED << apiVars, expVars >>

\* one iteration of the filter_map of fulfilled_by_trait
LookupEnum(i) ==
    /\ i \in TraitInvocations
    /\ pc[i] = "lookup"
    /\ idents[i] # << >>
    /\ fulfilled' = [fulfilled EXCEPT ![i] = @ \o lookup_enum(ENUM_DEFS, Head(idents[i]))]
    /\ idents' = [idents EXCEPT ![i] = Tail(@)]
    /\ UNCHANGED << cacheVars, pc, expanded, started, overlapped, doneAtStore >>
    /\ UNCHANGED << apiVars, expVars >>

Expansion(enum_def, traitdef) ==
    [trait |-> traitdef.ident, enum |-> enum_def.ident,
     out |-> add_enum_impls(enum_def, traitdef)]

\* the enum's invocation expands itself with every trait its take returned
ExpandEnum(i) ==
    /\ i \in EnumInvocations
    /\ pc[i] = "lookup"
    /\ idents[i] = << >>
    /\ expanded' = [expanded EXCEPT ![i] =
                      [k \in DOMAIN fulfilled[i] |-> Expansion(InvItem(i), fulfilled[i][k])]]
    /\ pc' = [pc EXCEPT ![i] = "done"]
    /\ UNCHANGED << cacheVars, idents, fulfilled, started, overlapped, doneAtStore >>
    /\ UNCHANGED << apiVars, expVars >>

\* the trait's invocation expands every enum its take returned with itself
ExpandTrait(i) ==
    /\ i \in TraitInvocations
    /\ pc[i] = "lookup"
    /\ idents[i] = << >>
    /\ expanded' = [expanded EXCEPT ![i] =
                      [k \in DOMAIN fulfilled[i] |-> Expansion(fulfilled[i][k], InvItem(i))]]
    /\ pc' = [pc EXCEPT ![i] = "done"]
    /\ UNCHANGED << cacheVars, idents, fulfilled, started, overlapped, doneAtStore >>
    /\ UNCHANGED << apiVars, expVars >>

Next ==
    \/ \E i \in Invocations : StoreTrait(i)
    \/ \E i \in Invocations : StoreEnum(i)
    \/ \E i \in Invocations : Link(i)
    \/ \E i \in Invocations : Take(i)
    \/ \E i \in Invocations : LookupTrait(i)
    \/ \E i \in Invocations : LookupEnum(i)
    \/ \E i \in Invocations : ExpandEnum(i)
    \/ \E i \in Invocations : ExpandTrait(i)

Spec == Init /\ [][Next]_vars

\* every expansion of the pair (t, e), whichever invocation produced it
RECURSIVE ExpansionsBy(_, _, _)
ExpansionsBy(invs, t, e) ==
    IF invs = << >> THEN << >>
    ELSE SelectSeq(expanded[Head(invs)], LAMBDA x : x.trait = t /\ x.enum = e)
         \o ExpansionsBy(Tail(invs), t, e)

Expansions(t, e) == ExpansionsBy(<< "tA", "tB", "eA", "eB" >>, t, e)

Triggers(i, t, e) == ExpansionsBy(<< i >>, t, e) # << >>

\* the text of an expansion: its tokens without their spans
SyntaxOf(impls) == [k \in DOMAIN impls |-> [impls[k] EXCEPT !.spans = {}]]

---------------------------------------------------------------------------
(* Claims about the invocations (Spec). *)

\* C1: when the invocation of enum E and the invocation of its trait T have
\* both finished, exactly one of them has triggered the expansion of (T, E);
\* they never both trigger it.
C1_ExactlyOneTriggers ==
    /\ ~(Triggers("tA", "T", "E") /\ Triggers("eA", "T", "E"))
    /\ (pc["tA"] = "done" /\ pc["eA"] = "done")
          => (Triggers("tA", "T", "E") \/ Triggers("eA", "T", "E"))

\* C2: with sequential processing, whichever of the trait and the enum is
\* processed first, the pair is expanded exactly once and the text of the
\* expansion is the one the two source items determine.
C2_OrderIndependent ==
    \A e \in EnumInvocations :
        (~overlapped /\ pc["tA"] = "done" /\ pc[e] = "done" /\ pc["tB"] = "store")
        => LET all == Expansions(InvAttr(e), InvItem(e).ident)
               direct == add_enum_impls(InvItem(e), InvItem("tA"))
           IN  /\ Len(all) = 1
               /\ all[1].out.ok = direct.ok
               /\ SyntaxOf(all[1].out.val) = SyntaxOf(direct.val)

\* C2 witness: enum E was processed before the trait and enum F after it, one
\* at a time, and each pair has its expansion.
C2_Witness ==
    /\ ~overlapped
    /\ started = << "eA", "tA", "eB" >>
    /\ pc["eB"] = "done"
    /\ Triggers("tA", "T", "E")
    /\ Triggers("eB", "T", "F")

\* C3: an enum processed while its trait is not cached gets nothing back from
\* its take and goes on without error; the pair is not expanded before the
\* trait is stored; the take of the trait's invocation returns the enum and
\* triggers the expansion.
C3_DeferredUntilTrait ==
    \A e \in EnumInvocations :
        LET T == InvAttr(e)
            E == InvItem(e).ident
        IN  /\ (pc[e] = "done" /\ T \notin DOMAIN TRAIT_DEFS)
                  => (fulfilled[e] = << >> /\ expanded[e] = << >>)
            /\ T \notin DOMAIN TRAIT_DEFS => Expansions(T, E) = << >>
            /\ (pc["tA"] = "done" /\ e \in doneAtStore["tA"])
                  => /\ \E k \in DOMAIN fulfilled["tA"] :
                            fulfilled["tA"][k] = ParseEnum(ENUM_DEFS[E])
                     /\ Triggers("tA", T, E)

\* C3 witness: the enum's invocation finished before the trait was stored, and
\* the trait's invocation has expanded the pair.
C3_Witness ==
    /\ pc["tA"] = "done"
    /\ "eA" \in doneAtStore["tA"]
    /\ fulfilled["eA"] = << >>
    /\ Triggers("tA", "T", "E")

\* C4: once a linked pair has been matched and both invocations have finished,
\* neither name is listed under the other in the link table, and the pair is
\* never expanded a second time.
C4_LinkConsumedOnce ==
    \A e \in EnumInvocations :
        LET T == InvAttr(e)
            E == InvItem(e).ident
        IN  /\ (pc["tA"] = "done" /\ pc[e] = "done" /\ Expansions(T, E) # << >>)
                  => /\ E \notin Range(TakenLinks(DEFERRED_LINKS, T))
                     /\ T \notin Range(TakenLinks(DEFERRED_LINKS, E))
            /\ Len(Expansions(T, E)) <= 1

\* C15: no match is lost.  For every enum linked to the trait, once the
\* enum's invocation and the trait's invocation have both finished, under
\* every interleaving of their cache accesses and with the other enum being
\* linked to the same trait meanwhile, the take of at least one of the two has
\* returned the definition of the other, and that invocation has expanded the
\* pair.
C15_NoMatchLost ==
    \A e \in EnumInvocations :
        LET T == InvAttr(e)
            E == InvItem(e).ident
        IN  (pc["tA"] = "done" /\ pc[e] = "done")
                => \/ /\ \E k \in DOMAIN fulfilled["tA"] : fulfilled["tA"][k].ident = E
                      /\ Triggers("tA", T, E)
                   \/ /\ \E k \in DOMAIN fulfilled[e] : fulfilled[e][k].ident = T
                      /\ Triggers(e, T, E)

\* C15 witness: the trait's invocation began while the invocation of enum E
\* was in progress; the enum's take found no stored trait and the trait's take
\* returned E, while enum F had been linked to the same trait and was still
\* in progress.
C15_Witness ==
    /\ overlapped
    /\ pc["tA"] = "done"
    /\ pc["eA"] = "done"
    /\ pc["eB"] = "take"
    /\ fulfilled["eA"] = << >>
    /\ Triggers("tA", "T", "E")

---------------------------------------------------------------------------
(* SpecApi: the public functions of the cache, called one after another in *)
(* any order.  A call runs to completion before the next begins.           *)

ApiTraits == { TraitT, TraitT2 }
ApiEnums == { EnumE, EnumF }

\* a link pairs the name of a trait with the name of an enum, in either order
LinkPairs ==
    { << t, e >> : t \in TraitNames, e \in EnumNames }
        \cup { << e, t >> : t \in TraitNames, e \in EnumNames }

Call(op, a, b, item, taken, ret, again) ==
    [op |-> op, a |-> a, b |-> b, item |-> item, taken |-> taken, ret |-> ret, again |-> again]

\* store_trait(def)
ApiStoreTrait(item) ==
    /\ TRAIT_DEFS' = cache_trait(TRAIT_DEFS, item)
    /\ lastCall' = Call("store_trait", item.ident, "", << item >>, << >>, << >>, FALSE)
    /\ UNCHANGED << ENUM_DEFS, DEFERRED_LINKS, pending, matched >>
    /\ UNCHANGED << invVars, expVars >>

\* store_enum(def)
ApiStoreEnum(item) ==
    /\ ENUM_DEFS' = cache_enum_dispatch(ENUM_DEFS, item)
    /\ lastCall' = Call("store_enum", item.ident, "", << item >>, << >>, << >>, FALSE)
    /\ UNCHANGED << TRAIT_DEFS, DEFERRED_LINKS, pending, matched >>
    /\ UNCHANGED << invVars, expVars >>

\* register_link(needed, cached)
ApiRegisterLink(needed, cached) ==
    /\ CanPush(DEFERRED_LINKS, needed)
    /\ CanPush(DEFERRED_LINKS, cached)
    /\ DEFERRED_LINKS' = defer_link(DEFERRED_LINKS, needed, cached)
    /\ pending' = [pending EXCEPT ![needed][cached] = @ + 1, ![cached][needed] = @ + 1]
    /\ lastCall' = Call("register_link", needed, cached, << >>, << >>, << >>, FALSE)
    /\ UNCHANGED << TRAIT_DEFS, ENUM_DEFS, matched >>
    /\ UNCHANGED << invVars, expVars >>

\* take_traits_linked_to(defname)
ApiTakeTraits(defname) ==
    LET ret == fulfilled_by_enum(DEFERRED_LINKS, TRAIT_DEFS, defname)
    IN  /\ DEFERRED_LINKS' = remove_entry(DEFERRED_LINKS, defname)
        /\ pending' = [pending EXCEPT ![defname] = [b \in Names |-> 0]]
        /\ matched' = matched \cup { << ret[k].ident, defname >> : k \in DOMAIN ret }
        /\ lastCall' = Call("take_traits_linked_to", defname, "", << >>,
                            TakenLinks(DEFERRED_LINKS, defname), ret,
                            \E k \in DOMAIN ret : \E m \in matched :
                                m[1] = ret[k].ident /\ m[2] # defname)
        /\ UNCHANGED << TRAIT_DEFS, ENUM_DEFS >>
        /\ UNCHANGED << invVars, expVars >>

\* take_enums_linked_to(defname)
ApiTakeEnums(defname) ==
    LET ret == fulfilled_by_trait(DEFERRED_LINKS, ENUM_DEFS, defname)
    IN  /\ DEFERRED_LINKS' = remove_entry(DEFERRED_LINKS, defname)
        /\ pending' = [pending EXCEPT ![defname] = [b \in Names |-> 0]]
        /\ lastCall' = Call("take_enums_linked_to", defname, "", << >>,
                            TakenLinks(DEFERRED_LINKS, defname), ret, FALSE)
        /\ UNCHANGED << TRAIT_DEFS, ENUM_DEFS, matched >>
        /\ UNCHANGED << invVars, expVars >>

\* clear_links(defname)
ApiClearLinks(defname) ==
    /\ DEFERRED_LINKS' = remove_entry(DEFERRED_LINKS, defname)
    /\ pending' = [pending EXCEPT ![defname] = [b \in Names |-> 0]]
    /\ lastCall' = Call("clear_links", defname, "", << >>, << >>, << >>, FALSE)
    /\ UNCHANGED << TRAIT_DEFS, ENUM_DEFS, matched >>
    /\ UNCHANGED << invVars, expVars >>

NextApi ==
    \/ \E item \in ApiTraits : ApiStoreTrait(item)
    \/ \E item \in ApiEnums : ApiStoreEnum(item)
    \/ \E p \in LinkPairs : ApiRegisterLink(p[1], p[2])
    \/ \E n \in Names : ApiTakeTraits(n)
    \/ \E n \in Names : ApiTakeEnums(n)
    \/ \E n \in Names : ApiClearLinks(n)

SpecApi == Init /\ [][NextApi]_vars

---------------------------------------------------------------------------
(* Claims about the cache's public functions (SpecApi). *)

IsTake == lastCall.op \in { "take_traits_linked_to", "take_enums_linked_to" }

Occurrences(seq, x) == Cardinality({ k \in DOMAIN seq : seq[k] = x })

\* C5: however often register_link was repeated with the same pair, a take
\* returns each linked definition once, as after a single register_link.
C5_RegisterLinkIdempotent ==
    IsTake => \A k \in DOMAIN lastCall.ret : Occurrences(lastCall.ret, lastCall.ret[k]) = 1

\* what a step that is a take must satisfy (C6)
C6_TakeStep ==
    LET e == lastCall'.a
        linked == { t \in Names : pending[e][t] > 0 }
    IN  /\ lastCall'.op = "take_traits_linked_to"
              => Range(lastCall'.ret) =
                     { ParseTrait(TRAIT_DEFS[t]) : t \in linked \cap DOMAIN TRAIT_DEFS }
        /\ lastCall'.op = "take_enums_linked_to"
              => Range(lastCall'.ret) =
                     { ParseEnum(ENUM_DEFS[t]) : t \in linked \cap DOMAIN ENUM_DEFS }
        /\ lastCall'.op \in { "take_traits_linked_to", "take_enums_linked_to" }
              => /\ e \notin DOMAIN DEFERRED_LINKS'
                 /\ \A t \in DOMAIN DEFERRED_LINKS \ {e} :
                        /\ t \in DOMAIN DEFERRED_LINKS'
                        /\ DEFERRED_LINKS'[t] = DEFERRED_LINKS[t]

\* C6: a take on e returns exactly the definitions stored, when it is called,
\* under the identifiers linked to e and not yet consumed; an identifier with
\* no stored definition is left out, and the entries keyed by the other
\* identifiers stay as they are for their own takes; the entry keyed by e is
\* consumed.
C6_TakeReturnsStoredLinked == [][C6_TakeStep]_vars

\* C6 witness: take_enums_linked_to(T) found E and F linked, returned the
\* stored E and left out F, which has no definition and whose own entry still
\* lists T.
C6_Witness ==
    /\ lastCall.op = "take_enums_linked_to"
    /\ lastCall.a = "T"
    /\ Range(lastCall.taken) = { "E", "F" }
    /\ "E" \in DOMAIN ENUM_DEFS
    /\ "F" \notin DOMAIN ENUM_DEFS
    /\ lastCall.ret = << ParseEnum(ENUM_DEFS["E"]) >>
    /\ "T" \in Range(TakenLinks(DEFERRED_LINKS, "F"))

\* C7: after clear_links(n) no pending association involving n remains in the
\* link table, neither under n nor under any identifier linked to n.
C7_ClearDropsAllLinks ==
    lastCall.op = "clear_links"
        => /\ lastCall.a \notin DOMAIN DEFERRED_LINKS
           /\ \A m \in DOMAIN DEFERRED_LINKS : lastCall.a \notin Range(DEFERRED_LINKS[m])

\* what a step of each public function must satisfy (C8)
C8_Step ==
    LET op == lastCall'.op
        n == lastCall'.a
    IN  /\ op \in { "take_traits_linked_to", "take_enums_linked_to",
                    "register_link", "clear_links" }
              => (TRAIT_DEFS' = TRAIT_DEFS /\ ENUM_DEFS' = ENUM_DEFS)
        /\ op = "store_trait"
              => /\ ENUM_DEFS' = ENUM_DEFS
                 /\ DOMAIN TRAIT_DEFS' = DOMAIN TRAIT_DEFS \cup {n}
                 /\ \A k \in DOMAIN TRAIT_DEFS \ {n} : TRAIT_DEFS'[k] = TRAIT_DEFS[k]
                 /\ TRAIT_DEFS'[n] = TraitToString(lastCall'.item[1])
        /\ op = "store_enum"
              => /\ TRAIT_DEFS' = TRAIT_DEFS
                 /\ DOMAIN ENUM_DEFS' = DOMAIN ENUM_DEFS \cup {n}
                 /\ \A k \in DOMAIN ENUM_DEFS \ {n} : ENUM_DEFS'[k] = ENUM_DEFS[k]
                 /\ ENUM_DEFS'[n] = EnumToString(lastCall'.item[1])
        /\ op = "take_traits_linked_to"
              => \A t \in DOMAIN TRAIT_DEFS :
                     pending[n][t] = 1
                        => Occurrences(lastCall'.ret, ParseTrait(TRAIT_DEFS[t])) = 1

\* C8: the takes, register_link and clear_links leave both definition tables
\* as they are; a store changes only the entry keyed by the stored item's
\* identifier, which becomes the stored item; and a stored trait linked once
\* to an enum is returned once by that enum's take, matched before or not.
C8_DefinitionsPersist == [][C8_Step]_vars

\* C8 witness: a take for one enum returns, once, a trait that an earlier take
\* had already returned for another enum, after the trait was stored twice.
C8_Witness ==
    /\ lastCall.op = "take_traits_linked_to"
    /\ lastCall.again
    /\ lastCall.ret = << ParseTrait(TraitToString(TraitT2)) >>
    /\ Cardinality(matched) = 2

---------------------------------------------------------------------------
(* SpecExp: the expansion engine applied to one (enum, trait) pair. *)

Types == { TypePath(<< "Circle" >>), TypePath(<< "shapes", "Square" >>), TypeTuple }

GenericsInputs == { << >>, << TypeParam("T", << "Bar" >>) >> }

EnumInputs ==
    { EnumDispatchItem("AnyShape", g, vs) :
          g \in GenericsInputs, vs \in SeqsUpTo(Types, MaxVariants) }

Receivers == { << >>, << SelfRef >>, << SelfValue >> }
Params == { Captured("x"), Captured("y"), CapturedWild }

Methods == { TraitMethod("area", r \o ps) : r \in Receivers, ps \in SeqsUpTo(Params, MaxArgs) }

\* the items of the traits with several items
SampleItems ==
    { TraitMethod("area", << SelfRef >>),
      TraitMethod("scale", << SelfValue, Captured("x") >>),
      TraitMethod("unit", << >>),
      TraitConst("SIDES") }

ItemSeqs ==
    { << >> } \cup { << m >> : m \in Methods \cup { TraitConst("SIDES") } }
        \cup { s \in SeqsUpTo(SampleItems, MaxMethods) : Len(s) >= 2 }

TraitInputs ==
    { ItemTrait("Shape", u, g, items) :
          u \in BOOLEAN, g \in GenericsInputs, items \in ItemSeqs }

InitExpand ==
    /\ InitCache /\ InitInvocations /\ InitApi
    /\ input \in [enum : EnumInputs, trait : TraitInputs]
    /\ output = NoOutput
    /\ converted = NoOutput

Expand ==
    /\ ~output.ran
    /\ output' = [ran |-> TRUE, res |-> add_enum_impls(input.enum, input.trait)]
    /\ UNCHANGED << input, converted, cacheVars, invVars, apiVars >>

\* syn::ItemEnum::from(enum_def): the standard enum emitted in place of the
\* reduced declaration
Convert ==
    /\ ~converted.ran
    /\ converted' = [ran |-> TRUE, res |-> ItemEnumFrom(input.enum)]
    /\ UNCHANGED << input, output, cacheVars, invVars, apiVars >>

NextExp == Expand \/ Convert

SpecExp == InitExpand /\ [][NextExp]_vars

---------------------------------------------------------------------------
(* Claims about the expansion engine (SpecExp). *)

Expanded == output.ran /\ output.res.ok

\* the implementation of the trait among the generated items
TraitImpls == SelectSeq(output.res.val, LAMBDA x : x.trait_.ident = input.trait.ident)

\* the conversion implementations among the generated items
FromImpls == SelectSeq(output.res.val, LAMBDA x : x.trait_.ident = "::std::convert::From")

HasReceiver(method) ==
    \E k \in DOMAIN method.inputs : method.inputs[k].tag \in { "SelfRef", "SelfValue" }

\* the declared names of the parameters other than the receiver, in order
ParamNames(method) ==
    LET ps == SelectSeq(method.inputs, LAMBDA a : a.tag \notin { "SelfRef", "SelfValue" })
    IN  [k \in DOMAIN ps |-> ps[k].ident]

LastSegment(ty) == ty.segments[Len(ty.segments)]

\* C9: for an enum with N variants, the generated body of every method with a
\* by-reference or by-value receiver is one match on self with N arms, one per
\* variant in declaration order, each binding the wrapped value to the fixed
\* name and calling the same method on it with the declared parameter names
\* in their order.
C9_MatchArms ==
    Expanded =>
        /\ Len(TraitImpls) = 1
        /\ Len(TraitImpls[1].items) = Len(input.trait.items)
        /\ \A k \in DOMAIN input.trait.items :
              LET method == input.trait.items[k]
                  body == TraitImpls[1].items[k].block
                  variants == input.enum.variants
              IN  HasReceiver(method) =>
                    /\ Len(body) = 1
                    /\ body[1].tag = "Match"
                    /\ body[1].expr = "self"
                    /\ Len(body[1].arms) = Len(variants)
                    /\ \A j \in DOMAIN variants :
                          /\ body[1].arms[j].pat =
                                 [enum |-> input.enum.ident,
                                  variant |-> LastSegment(variants[j]),
                                  binding |-> "inner"]
                          /\ body[1].arms[j].body.func =
                                 [base |-> "inner", member |-> method.ident]
                          /\ body[1].arms[j].body.args = ParamNames(method)

\* C9 witness: a method with a receiver and two parameters expanded for an
\* enum with two variants.
C9_Witness ==
    /\ Expanded
    /\ input.trait.items = << TraitMethod("area", << SelfRef, Captured("y"), Captured("x") >>) >>
    /\ input.enum.variants = << TypePath(<< "shapes", "Square" >>), TypePath(<< "Circle" >>) >>

\* C10: for an enum with N variants the expansion holds N conversion
\* implementations, the i-th from the i-th variant's type into the enum,
\* constructing the variant tagged with that type's last path segment.
C10_FromImpls ==
    Expanded =>
        LET variants == input.enum.variants
        IN  /\ Len(FromImpls) = Len(variants)
            /\ \A i \in DOMAIN variants :
                  /\ FromImpls[i].trait_.args = << TypeSyntax(variants[i]) >>
                  /\ FromImpls[i].self_ty.ident = input.enum.ident
                  /\ Len(FromImpls[i].items) = 1
                  /\ FromImpls[i].items[1].sig.types = << TypeSyntax(variants[i]) >>
                  /\ FromImpls[i].items[1].sig.output = input.enum.ident
                  /\ FromImpls[i].items[1].block[1].func =
                         [enum |-> input.enum.ident, variant |-> LastSegment(variants[i])]
                  /\ FromImpls[i].items[1].block[1].args = << "v" >>

\* C10 witness: an expanded enum of two variants of different types, one of
\* them a path of two segments.
C10_Witness ==
    /\ Expanded
    /\ input.enum.variants = << TypePath(<< "shapes", "Square" >>), TypePath(<< "Circle" >>) >>
    /\ Len(FromImpls) = 2

---------------------------------------------------------------------------
(* Failure of the expansion (SpecExp). *)

StaticMessage == "Static methods cannot be enum_dispatched (no self argument to match on)"

IsStatic(item) == item.tag = "Method" /\ ~HasReceiver(item)

\* every parameter of the method other than the receiver is bound to a plain name
PlainParams(item) ==
    \A k \in DOMAIN item.inputs :
        item.inputs[k].tag \in { "SelfRef", "SelfValue" }
            \/ (item.inputs[k].tag = "Captured" /\ item.inputs[k].pat = "Ident")

\* the trait item at position k is a method without receiver, and nothing the
\* engine looks at before it is unsupported
FirstFailureIsStatic(k) ==
    /\ \A j \in DOMAIN input.enum.variants : input.enum.variants[j].tag = "Path"
    /\ IsStatic(input.trait.items[k])
    /\ PlainParams(input.trait.items[k])
    /\ \A j \in 1..(k - 1) :
          /\ input.trait.items[j].tag = "Method"
          /\ HasReceiver(input.trait.items[j])
          /\ PlainParams(input.trait.items[j])

\* C11: if some method of the trait has no receiver, the expansion fails with
\* an error message and produces no output at all, wherever the method stands
\* and whatever the other items are; where the method is the first thing
\* unsupported, the message is the one explaining that static methods cannot
\* be dispatched.
C11_StaticMethodFatal ==
    (output.ran /\ \E k \in DOMAIN input.trait.items : IsStatic(input.trait.items[k]))
        => /\ ~output.res.ok
           /\ output.res.val = << >>
           /\ output.res.err # ""
           /\ \A k \in DOMAIN input.trait.items :
                  FirstFailureIsStatic(k) => output.res.err = StaticMessage

\* C11 witness: the expansion ran on a trait whose second item is a method
\* without receiver, after a supported method, for an enum with variants.
C11_Witness ==
    /\ output.ran
    /\ Len(input.trait.items) = 2
    /\ FirstFailureIsStatic(2)
    /\ Len(input.enum.variants) = 2
    /\ output.res.err = StaticMessage

---------------------------------------------------------------------------
(* Conversion of the reduced enum to a standard enum (SpecExp). *)

VariantMessage == "A variant for the specified type cannot be created."

\* C12: converting a reduced enum to a standard enum keeps the number and the
\* order of the variants, names each variant after the last segment of the
\* path of its type and gives it that type as its single unnamed field; if
\* some variant type is not a path the conversion fails with an error and
\* yields no enum, hence no variant with an invented name.
C12_StandardEnum ==
    converted.ran =>
        IF \A i \in DOMAIN input.enum.variants : input.enum.variants[i].tag = "Path"
        THEN /\ converted.res.ok
             /\ converted.res.val.ident = input.enum.ident
             /\ Len(converted.res.val.variants) = Len(input.enum.variants)
             /\ \A i \in DOMAIN input.enum.variants :
                   /\ converted.res.val.variants[i].ident = LastSegment(input.enum.variants[i])
                   /\ converted.res.val.variants[i].fields = << input.enum.variants[i] >>
        ELSE /\ ~converted.res.ok
             /\ converted.res.val = << >>
             /\ converted.res.err = VariantMessage

\* C12 witness: an enum of two variants of different path types, one of them
\* of several segments, was converted.
C12_Witness ==
    /\ converted.ran
    /\ converted.res.ok
    /\ Len(input.enum.variants) = 2
    /\ input.enum.variants[1] # input.enum.variants[2]
    /\ \E i \in 1..2 : Len(input.enum.variants[i].segments) > 1

---------------------------------------------------------------------------
(* Order of the generated items (SpecExp). *)

\* the generated item x is the implementation of the trait for the enum
IsTraitImpl(x) ==
    /\ x.trait_.ident = input.trait.ident
    /\ x.self_ty.ident = input.enum.ident
    /\ Len(x.items) = Len(input.trait.items)

\* the generated item x is the conversion from the type of variant i
IsFromImpl(x, i) ==
    /\ x.trait_.ident = "::std::convert::From"
    /\ x.trait_.args = << TypeSyntax(input.enum.variants[i]) >>
    /\ x.self_ty.ident = input.enum.ident

\* C13 as stated: the output is the implementation of the trait first,
\* followed by the conversion implementations in variant order.
C13_TraitImplFirst ==
    Expanded =>
        LET n == Len(input.enum.variants)
        IN  /\ Len(output.res.val) = n + 1
            /\ IsTraitImpl(output.res.val[1])
            /\ \A i \in 1..n : IsFromImpl(output.res.val[i + 1], i)

\* C13 (amended): the output of expanding a pair is one sequence made of the
\* conversion implementations, one per variant in variant order, followed by
\* the implementation of the trait as its last item.
C13_FromImplsThenTraitImpl ==
    Expanded =>
        LET n == Len(input.enum.variants)
        IN  /\ Len(output.res.val) = n + 1
            /\ \A i \in 1..n : IsFromImpl(output.res.val[i], i)
            /\ IsTraitImpl(output.res.val[n + 1])

\* C13 witness: a trait with a method was expanded for an enum of two variants
\* of different types.
C13_Witness ==
    /\ Expanded
    /\ Len(input.enum.variants) = 2
    /\ input.enum.variants[1] # input.enum.variants[2]
    /\ Len(input.trait.items) >= 1
    /\ Len(output.res.val) = 3

---------------------------------------------------------------------------
(* Generic parameters (SpecExp). *)

\* the names of the declared generic parameters, as they are applied to a
\* type or a trait: <T: Bar> gives <T>
GenericArgs(generics) == [k \in DOMAIN generics |-> generics[k].ident]

\* C14: expanding a trait with generic parameters against an enum with generic
\* parameters yields an implementation of the trait that declares the trait's
\* parameters verbatim and applies them to the trait and to the enum in its
\* header, as impl<T: Bar> Foo<T> for AnyFoo<T>.
C14_GenericsApplied ==
    (Expanded /\ input.trait.generics # << >> /\ input.enum.generics # << >>)
        => /\ Len(TraitImpls) = 1
           /\ TraitImpls[1].generics = input.trait.generics
           /\ TraitImpls[1].trait_.args = GenericArgs(input.trait.generics)
           /\ TraitImpls[1].self_ty.args = GenericArgs(input.enum.generics)

====
